---- MODULE Spec2Model ----
(***************************************************************************)
(* Model of src/src/app.py: a Streamlit RAG chatbot over telephone         *)
(* dialogues.  One session: the cached resources (embedding model,         *)
(* database connection, Groq client), the widgets, the session transcript  *)
(* st.session_state.messages, and the runs of main(): load the resources,  *)
(* read the chat input, append the user turn, embed, search, branch on the *)
(* result list, build the context, generate, append the assistant turn,    *)
(* offer the clear button.                                                 *)
(*                                                                         *)
(* Numbers: a similarity is kept in hundredths (One = 1.00); embeddings    *)
(* are 2-dimensional integer vectors whose norms are whole numbers, so     *)
(* that cosine distance is computed exactly.  The two values of the        *)
(* similarity column that are not numbers, NaN and NULL, are written as    *)
(* two integers above every number, NULL above NaN: the order of           *)
(* ORDER BY ... DESC (NULLs first, NaN above every number) is then the     *)
(* order of the integers.                                                  *)
(***************************************************************************)
EXTENDS Integers, Sequences, FiniteSets, TLC

VARIABLES
    store,              \* rows of table dialogues (external, never written)
    embedder,           \* cached load_embedding_model(): "uncached", "ok"
    conn,               \* cached get_db_connection(): "uncached", "ok", "None"
    client,             \* cached get_groq_client():   "uncached", "ok", "None"
    top_k,              \* sidebar slider
    messages,           \* st.session_state.messages
    pc,                 \* position of the script run
    question,           \* value st.chat_input returns in this run ("": None)
    clicked,            \* value st.sidebar.button returns in this run
    query_embedding,    \* model.encode(...) of the question
    similar_dialogues,  \* result list of search_similar_dialogues
    context,            \* context string handed to generate_response
    response,           \* answer of this run
    report,             \* st.error messages shown by the current run
    chatInput,          \* the chat input is on the page
    clearButton,        \* the clear button is on the page
    llm,                \* what the provider call of this query did
    calls,              \* encode / execute / generate calls of this query
    outcome,            \* how the last submitted query went
    lastClear           \* transcript length the last click on the clear button
                        \* found when its run came to the button, -1 after
                        \* any later event

vars == <<store, embedder, conn, client, top_k, messages, pc, question,
          clicked, query_embedding, similar_dialogues, context, response,
          report, chatInput, clearButton, llm, calls, outcome, lastClear>>

-----------------------------------------------------------------------------
(* Bounds of the model *)

MaxRows == 2

MaxTurns == 4

(* Program constants *)

TopKMin == 1

TopKMax == 10

TopKDefault == 3

One == 100

\* The two message literals are written in ASCII: the accented letters of the
\* source (e acute, a grave) appear here without their accent.
NoResultsMessage ==
    "Desole, je n'ai pas trouve de dialogues pertinents pour repondre a votre question."

GenErrorPrefix == "Erreur lors de la generation: "

\* Variant: entries separated by a single line break.
Separator_SingleNewline == "\n"

Separator == "\n\n"

-----------------------------------------------------------------------------
(* Inputs *)

Questions == {"q1", "q2"}

\* contenu of the row with a given id
Contenu(i) == <<"A", "Bb", "Ccc", "Dddd">>[i]

\* embedding IS NULL
NullVector == <<>>

\* stored embeddings: one of norm 10 near the questions, one of norm 5
\* opposite to q1, the zero vector, and NULL
StoreVectors == {<<6, 8>>, <<-5, 0>>, <<0, 0>>, NullVector}

DialogueId(i) == <<"d1", "d2", "d3", "d4">>[i]

LLMOutcomes == {[ok |-> TRUE, text |-> "r"], [ok |-> FALSE, text |-> "e"]}

NoLLM == [ok |-> TRUE, text |-> ""]

NoEmbedding == <<0, 0>>

\* slider positions tried: the smallest and the default
TopKValues == {k \in TopKMin..TopKMax : k \in {TopKMin, TopKDefault}}

Stores ==
    UNION { { { [id |-> i, dialogue_id |-> DialogueId(i),
                 contenu |-> Contenu(i), embedding |-> f[i]] : i \in 1..n }
              : f \in [1..n -> StoreVectors] }
            : n \in 0..MaxRows }

-----------------------------------------------------------------------------
(* Pure parts of the program *)

Min(a, b) == IF a <= b THEN a ELSE b

Range(s) == { s[i] : i \in DOMAIN s }

\* model.encode(query, normalize_embeddings=True): a unit vector (in fifths).
encode(q) == IF q = "q1" THEN <<5, 0>> ELSE <<3, 4>>

Dot(a, b) == a[1] * b[1] + a[2] * b[2]

Norm(a) == CHOOSE n \in 0..20 : n * n = Dot(a, a)

\* a float that is not a number
NaN == 10 * One

\* SQL NULL, None in Python
Null == 20 * One

\* pgvector's <=> operator: 1 - cos(a, b); NULL for a NULL operand, NaN (0/0)
\* when a norm is 0.
CosineDistance(a, b) ==
    IF a = NullVector \/ b = NullVector THEN Null
    ELSE IF Norm(a) * Norm(b) = 0 THEN NaN
    ELSE One - (One * Dot(a, b)) \div (Norm(a) * Norm(b))

\* 1 - (embedding <=> %s::vector) AS similarity
Similarity(qe, e) ==
    IF CosineDistance(e, qe) \in {NaN, Null} THEN CosineDistance(e, qe)
    ELSE One - CosineDistance(e, qe)

\* SELECT id, dialogue_id, contenu, similarity FROM dialogues
Scored(qe, rows) ==
    { <<r.id, r.dialogue_id, r.contenu, Similarity(qe, r.embedding)>> : r \in rows }

IsSortedDesc(s) == \A i \in 1..(Len(s) - 1) : s[i][4] >= s[i + 1][4]

\* ORDER BY similarity DESC LIMIT k; fetchall().  NULLs come first, then NaN,
\* then the numbers.  The order of rows of equal similarity is not fixed by
\* the query: every admissible list is a result.
ExecuteQuery(qe, rows, k) ==
    LET all == Scored(qe, rows)
        n   == Min(k, Cardinality(all))
    IN  { s \in [1..n -> all] :
            /\ \A i, j \in 1..n : i # j => s[i] # s[j]
            /\ IsSortedDesc(s)
            /\ \A t \in all \ Range(s) : \A i \in 1..n : s[i][4] >= t[4] }

\* Variant: the except branch returns [] without st.error.
search_similar_dialogues_Silent(q, encOk, execOk, c, rows, k) ==
    IF encOk /\ execOk /\ c = "ok"
    THEN { [results |-> s, reported |-> {}] : s \in ExecuteQuery(encode(q), rows, k) }
    ELSE { [results |-> <<>>, reported |-> {}] }

\* search_similar_dialogues: the possible (result list, reported errors).
\* encOk / execOk: whether model.encode and cur.execute succeed.
search_similar_dialogues(q, encOk, execOk, c, rows, k) ==
    IF encOk /\ execOk /\ c = "ok"
    THEN { [results |-> s, reported |-> {}] : s \in ExecuteQuery(encode(q), rows, k) }
    ELSE { [results |-> <<>>, reported |-> {"search"}] }

RECURSIVE JoinContext(_)
\* "\n\n".join([dialogue[2] for dialogue in similar_dialogues])
JoinContext(ds) ==
    IF ds = <<>> THEN ""
    ELSE IF Len(ds) = 1 THEN ds[1][3]
    ELSE ds[1][3] \o Separator \o JoinContext(Tail(ds))

\* Variant: the except branch returns an empty answer.
generate_response_Swallow(q, ctx, o) ==
    IF o.ok THEN o.text ELSE ""

\* generate_response: the provider's text, or the error text.
generate_response(q, ctx, o) ==
    IF o.ok THEN o.text ELSE GenErrorPrefix \o o.text

UserTurn(q) == [role |-> "user", content |-> q]

AssistantTurn(resp, ds) ==
    [role |-> "assistant", content |-> resp,
     sources |-> IF ds # <<>> THEN ds ELSE <<>>]

\* Variant: the branch tests "is not None", which an empty list passes.
HasResults_NotNone(ds) == TRUE

\* if not similar_dialogues: ... else: ...
HasResults(ds) == ds # <<>>

\* st.cache_resource: the value cached, or the one the function now returns
Cached(cache, fresh) == IF cache = "uncached" THEN fresh ELSE cache

\* Variant: "and" in place of "or".
Unavailable_And(c, k) == c = "None" /\ k = "None"

\* if conn is None or client is None: return
Unavailable(c, k) == c = "None" \/ k = "None"

NoCalls == [encode |-> 0, execute |-> 0, generate |-> 0]

NoClear == 0 - 1

\* Variant: insert(0, turn).
AppendTurn_Front(ms, t) == <<t>> \o ms

\* st.session_state.messages.append(turn)
AppendTurn(ms, t) == Append(ms, t)

-----------------------------------------------------------------------------
(* The script.  A run of main() goes from st.* call to st.* call; a widget  *)
(* event stops the run in progress at the st.* call it has reached (the     *)
(* element of that call is not sent) and starts a new run with the widget   *)
(* values of the event.                                                     *)

Init ==
    /\ store \in Stores
    /\ embedder = "uncached"
    /\ conn = "uncached"
    /\ client = "uncached"
    /\ top_k = TopKDefault
    /\ messages = <<>>
    /\ pc = "start"
    /\ question = ""
    /\ clicked = FALSE
    /\ query_embedding = NoEmbedding
    /\ similar_dialogues = <<>>
    /\ context = ""
    /\ response = ""
    /\ report = {}
    /\ chatInput = FALSE
    /\ clearButton = FALSE
    /\ llm = NoLLM
    /\ calls = NoCalls
    /\ outcome = "none"
    /\ lastClear = NoClear

\* A run of main() starts with the widget values q (chat input) and c (clear
\* button): the locals and the elements of the previous run are gone.
FreshRun(q, c) ==
    /\ question' = q
    /\ clicked' = c
    /\ query_embedding' = NoEmbedding
    /\ similar_dialogues' = <<>>
    /\ context' = ""
    /\ response' = ""
    /\ report' = {}
    /\ llm' = NoLLM
    /\ calls' = NoCalls
    /\ outcome' = "none"
    /\ pc' = "start"

\* The positions at which a run can be replaced: between runs ("idle"), and
\* at the st.* calls of a run in progress, one position for the calls
\* between which nothing changes ("start": down to the spinner of
\* load_embedding_model; "connect", "client": the spinners st.cache_resource
\* shows around a function it has to call; "input": from the end of the
\* spinners to st.chat_input; "Embedding": after the user turn;
\* "Generating": the spinner around generate_response; "Answered": from the
\* answer shown to the assistant turn; "button": st.sidebar.button).  No
\* st.* call lies between model.encode and cur.execute ("Searching"), or
\* between the return of search_similar_dialogues and the assignment of
\* response or context ("Retrieved").
YieldPoints == {"idle", "start", "connect", "db_error", "client",
                "key_error", "init_error", "input", "Embedding",
                "search_error", "Generating", "Answered", "button"}

\* The run is at one of them.  st.sidebar.button is called only when the
\* transcript is not empty; st.cache_resource shows a spinner only around a
\* function whose value is not cached yet (the value is cached when the
\* spinner ends).
AtYieldPoint ==
    /\ pc \in YieldPoints
    /\ (pc = "button" => messages # <<>>)
    /\ (pc = "connect" => conn = "uncached")
    /\ (pc = "client" => client = "uncached")

\* A widget event: slider value k, chat input value q ("" for none), clear
\* button clicked or not.  Events that arrive together reach one run.
WidgetEvent(k, q, c) ==
    /\ AtYieldPoint
    /\ top_k' = k
    /\ FreshRun(q, c)
    /\ lastClear' = NoClear
    /\ UNCHANGED <<store, embedder, conn, client, messages, chatInput,
                   clearButton>>

\* A slider is moved (top_k, or temperature / max_tokens, which leave top_k
\* as it is).
Rerun == \E k \in TopKValues : WidgetEvent(k, "", FALSE)

\* A question is typed into the chat input (rendered by an earlier run),
\* possibly together with a slider move or a click on the clear button.
Submit ==
    /\ chatInput
    /\ Len(messages) + 2 <= MaxTurns
    /\ \E k \in TopKValues, q \in Questions, c \in {FALSE, clearButton} :
         WidgetEvent(k, q, c)

\* The clear button (rendered by an earlier run) is clicked.
ClearClick ==
    /\ clearButton
    /\ \E k \in TopKValues : WidgetEvent(k, "", TRUE)

\* An exception leaves main(): the run ends there, the exception is shown,
\* the widgets the run has not rendered are gone (input: the chat input was
\* rendered by this run).
RunDies(input) ==
    /\ report' = report \cup {"uncaught"}
    /\ chatInput' = input
    /\ clearButton' = FALSE
    /\ pc' = "idle"

\* The spinner is left; if conn is None or client is None: ...
AfterLoad(c, k) == IF Unavailable(c, k) THEN "init_error" ELSE "input"

\* model = load_embedding_model(), cached once it has returned.
LoadModel ==
    /\ pc = "start"
    /\ \E modelOk \in BOOLEAN :
         IF Cached(embedder, IF modelOk THEN "ok" ELSE "raises") = "ok"
         THEN /\ embedder' = "ok"
              /\ pc' = "connect"
              /\ UNCHANGED <<report, chatInput, clearButton>>
         ELSE /\ RunDies(FALSE)
              /\ UNCHANGED embedder
    /\ UNCHANGED <<store, conn, client, top_k, messages, question, clicked,
                   query_embedding, similar_dialogues, context, response, llm,
                   calls, outcome, lastClear>>

\* conn = get_db_connection(): the cached value, or psycopg.connect.  On a
\* failure (and again each time the cached None is returned) the function is
\* at its st.error.
Connect ==
    /\ pc = "connect"
    /\ \E dbOk \in BOOLEAN :
         IF Cached(conn, IF dbOk THEN "ok" ELSE "None") = "ok"
         THEN conn' = "ok" /\ pc' = "client"
         ELSE pc' = "db_error" /\ UNCHANGED conn
    /\ UNCHANGED <<store, embedder, client, top_k, messages, question,
                   clicked, query_embedding, similar_dialogues, context,
                   response, report, chatInput, clearButton, llm, calls,
                   outcome, lastClear>>

\* get_db_connection: st.error(...); return None.  The None is cached.
DbError ==
    /\ pc = "db_error"
    /\ report' = report \cup {"db"}
    /\ conn' = "None"
    /\ pc' = "client"
    /\ UNCHANGED <<store, embedder, client, top_k, messages, question,
                   clicked, query_embedding, similar_dialogues, context,
                   response, chatInput, clearButton, llm, calls, outcome,
                   lastClear>>

\* client = get_groq_client(): the cached value; or, without a key, the
\* function is at its st.error; or Groq(api_key=...), which may raise.
Client ==
    /\ pc = "client"
    /\ \E keyOk \in BOOLEAN, ctorOk \in BOOLEAN :
         IF Cached(client, IF keyOk THEN "ok" ELSE "None") = "None"
         THEN /\ pc' = "key_error"
              /\ UNCHANGED <<client, report, chatInput, clearButton>>
         ELSE IF client = "ok" \/ ctorOk
         THEN /\ client' = "ok"
              /\ pc' = AfterLoad(conn, "ok")
              /\ UNCHANGED <<report, chatInput, clearButton>>
         ELSE /\ RunDies(FALSE)
              /\ UNCHANGED client
    /\ UNCHANGED <<store, embedder, conn, top_k, messages, question, clicked,
                   query_embedding, similar_dialogues, context, response, llm,
                   calls, outcome, lastClear>>

\* get_groq_client: st.error(...); return None.  The None is cached.
KeyError ==
    /\ pc = "key_error"
    /\ report' = report \cup {"key"}
    /\ client' = "None"
    /\ pc' = AfterLoad(conn, "None")
    /\ UNCHANGED <<store, embedder, conn, top_k, messages, question, clicked,
                   query_embedding, similar_dialogues, context, response,
                   chatInput, clearButton, llm, calls, outcome, lastClear>>

\* st.error("Impossible d'initialiser ..."); return: the run is over, without
\* chat input and without clear button.
InitError ==
    /\ pc = "init_error"
    /\ report' = report \cup {"init"}
    /\ chatInput' = FALSE
    /\ clearButton' = FALSE
    /\ pc' = "idle"
    /\ UNCHANGED <<store, embedder, conn, client, top_k, messages, question,
                   clicked, query_embedding, similar_dialogues, context,
                   response, llm, calls, outcome, lastClear>>

\* The row count, the transcript so far, then st.chat_input: with a question
\* the user turn is appended, without one the run goes on to the clear button.
Input ==
    /\ pc = "input"
    /\ chatInput' = TRUE
    /\ IF question # ""
       THEN /\ messages' = AppendTurn(messages, UserTurn(question))
            /\ outcome' = "pending"
            /\ pc' = "Embedding"
       ELSE /\ pc' = "button"
            /\ UNCHANGED <<messages, outcome>>
    /\ UNCHANGED <<store, embedder, conn, client, top_k, question, clicked,
                   query_embedding, similar_dialogues, context, response,
                   report, clearButton, llm, calls, lastClear>>

\* Variant: model.encode outside the try; a failure falls through to the query.
Embedding_FallThrough ==
    /\ pc = "Embedding"
    /\ calls' = [calls EXCEPT !.encode = @ + 1]
    /\ \E encOk \in BOOLEAN :
         /\ query_embedding' = IF encOk THEN encode(question) ELSE NoEmbedding
         /\ outcome' = IF encOk THEN outcome ELSE "embedding_error"
    /\ pc' = "Searching"
    /\ UNCHANGED <<store, embedder, conn, client, top_k, messages, question,
                   clicked, similar_dialogues, context, response, report,
                   chatInput, clearButton, llm, lastClear>>

\* search_similar_dialogues, first half: model.encode.  When it raises, the
\* function is at the st.error of its except branch.
Embedding ==
    /\ pc = "Embedding"
    /\ calls' = [calls EXCEPT !.encode = @ + 1]
    /\ \E encOk \in BOOLEAN :
         IF encOk
         THEN /\ query_embedding' = encode(question)
              /\ pc' = "Searching"
              /\ UNCHANGED outcome
         ELSE /\ outcome' = "embedding_error"
              /\ pc' = "search_error"
              /\ UNCHANGED query_embedding
    /\ UNCHANGED <<store, embedder, conn, client, top_k, messages, question,
                   clicked, similar_dialogues, context, response, report,
                   chatInput, clearButton, llm, lastClear>>

\* search_similar_dialogues, second half: conn.cursor(), cur.execute and
\* fetchall.  When conn.cursor() raises (the cached connection is closed)
\* cur.execute is not reached; when one of them raises, the function is at
\* the st.error of its except branch.
Searching ==
    /\ pc = "Searching"
    /\ \E cursorOk \in BOOLEAN, execOk \in BOOLEAN :
         /\ calls' = IF cursorOk THEN [calls EXCEPT !.execute = @ + 1]
                     ELSE calls
         /\ IF cursorOk /\ execOk
            THEN \E r \in search_similar_dialogues(question, TRUE, TRUE, conn,
                                                   store, top_k) :
                   /\ similar_dialogues' = r.results
                   /\ report' = report \cup r.reported
                   /\ outcome' = IF r.results = <<>> THEN "no_results"
                                 ELSE "results"
                   /\ pc' = "Retrieved"
            ELSE /\ outcome' = "retrieval_error"
                 /\ pc' = "search_error"
                 /\ UNCHANGED <<similar_dialogues, report>>
    /\ UNCHANGED <<store, embedder, conn, client, top_k, messages, question,
                   clicked, query_embedding, context, response, chatInput,
                   clearButton, llm, lastClear>>

\* search_similar_dialogues, except branch: st.error(...); return [].
SearchError ==
    /\ pc = "search_error"
    /\ \E r \in search_similar_dialogues(question,
                                         outcome # "embedding_error",
                                         outcome # "retrieval_error",
                                         conn, store, top_k) :
         /\ similar_dialogues' = r.results
         /\ report' = report \cup r.reported
    /\ pc' = "Retrieved"
    /\ UNCHANGED <<store, embedder, conn, client, top_k, messages, question,
                   clicked, query_embedding, context, response, chatInput,
                   clearButton, llm, calls, outcome, lastClear>>

\* if not similar_dialogues: the fixed answer.
NoResults ==
    /\ pc = "Retrieved"
    /\ ~HasResults(similar_dialogues)
    /\ response' = NoResultsMessage
    /\ pc' = "Answered"
    /\ UNCHANGED <<store, embedder, conn, client, top_k, messages, question,
                   clicked, query_embedding, similar_dialogues, context,
                   report, chatInput, clearButton, llm, calls, outcome, lastClear>>

\* else: the context is built.
ContextBuilding ==
    /\ pc = "Retrieved"
    /\ HasResults(similar_dialogues)
    /\ context' = JoinContext(similar_dialogues)
    /\ pc' = "Generating"
    /\ UNCHANGED <<store, embedder, conn, client, top_k, messages, question,
                   clicked, query_embedding, similar_dialogues, response,
                   report, chatInput, clearButton, llm, calls, outcome, lastClear>>

\* generate_response(question, context, client, ...)
Generating ==
    /\ pc = "Generating"
    /\ calls' = [calls EXCEPT !.generate = @ + 1]
    /\ \E o \in LLMOutcomes :
         /\ llm' = o
         /\ response' = generate_response(question, context, o)
         /\ outcome' = IF o.ok THEN "generated" ELSE "generation_error"
    /\ pc' = "Answered"
    /\ UNCHANGED <<store, embedder, conn, client, top_k, messages, question,
                   clicked, query_embedding, similar_dialogues, context,
                   report, chatInput, clearButton, lastClear>>

\* f"{similarity:.2%}" raises on None.
CanFormat(ds) == \A i \in 1..Len(ds) : ds[i][4] # Null

\* The answer is shown, then the sources, each with its similarity as a
\* percentage; the assistant turn is appended.  When a similarity cannot be
\* formatted the exception ends the run before the append.
Done ==
    /\ pc = "Answered"
    /\ IF CanFormat(similar_dialogues)
       THEN /\ messages' = AppendTurn(messages,
                                      AssistantTurn(response, similar_dialogues))
            /\ pc' = "button"
            /\ UNCHANGED <<report, chatInput, clearButton, outcome>>
       ELSE /\ RunDies(TRUE)
            /\ outcome' = "display_error"
            /\ UNCHANGED messages
    /\ UNCHANGED <<store, embedder, conn, client, top_k, question, clicked,
                   query_embedding, similar_dialogues, context, response,
                   llm, calls, lastClear>>

\* if st.session_state.messages: if st.sidebar.button(...): the button is
\* rendered when the transcript is not empty, and returns True when it was
\* clicked.
ButtonClears == messages # <<>> /\ clicked

\* The end of the script, the button not clicked (or not rendered).
EndRun ==
    /\ pc = "button"
    /\ ~ButtonClears
    /\ clearButton' = (messages # <<>>)
    /\ lastClear' = IF clicked THEN Len(messages) ELSE lastClear
    /\ clicked' = FALSE
    /\ pc' = "idle"
    /\ UNCHANGED <<store, embedder, conn, client, top_k, messages, question,
                   query_embedding, similar_dialogues, context, response,
                   report, chatInput, llm, calls, outcome>>

\* Variant: the click removes the last turn only.
ClearHistory_DropLast ==
    /\ pc = "button"
    /\ ButtonClears
    /\ clearButton' = TRUE
    /\ lastClear' = Len(messages)
    /\ messages' = SubSeq(messages, 1, Len(messages) - 1)
    /\ FreshRun("", FALSE)
    /\ UNCHANGED <<store, embedder, conn, client, top_k, chatInput>>

\* The button was clicked: st.session_state.messages = []; st.rerun(), which
\* starts the next run.
ClearHistory ==
    /\ pc = "button"
    /\ ButtonClears
    /\ clearButton' = TRUE
    /\ lastClear' = Len(messages)
    /\ messages' = <<>>
    /\ FreshRun("", FALSE)
    /\ UNCHANGED <<store, embedder, conn, client, top_k, chatInput>>

Next ==
    \/ Rerun
    \/ Submit
    \/ ClearClick
    \/ LoadModel
    \/ Connect
    \/ DbError
    \/ Client
    \/ KeyError
    \/ InitError
    \/ Input
    \/ Embedding
    \/ Searching
    \/ SearchError
    \/ NoResults
    \/ ContextBuilding
    \/ Generating
    \/ Done
    \/ EndRun
    \/ ClearHistory

Spec == Init /\ [][Next]_vars

TypeOK ==
    /\ pc \in YieldPoints \cup {"Searching", "Retrieved"}
    /\ embedder \in {"uncached", "ok"}
    /\ conn \in {"uncached", "ok", "None"}
    /\ client \in {"uncached", "ok", "None"}
    /\ top_k \in TopKMin..TopKMax
    /\ question \in Questions \cup {""}
    /\ clicked \in BOOLEAN
    /\ chatInput \in BOOLEAN
    /\ clearButton \in BOOLEAN
    /\ report \subseteq {"db", "key", "init", "search", "uncaught"}
    /\ Len(messages) <= MaxTurns
    /\ lastClear \in {NoClear} \cup 0..MaxTurns

-----------------------------------------------------------------------------
(* Properties *)

Last(s) == s[Len(s)]

\* The query of this run has its result list (and the run is not yet replaced).
Retrieved == pc \in {"Retrieved", "Generating", "Answered", "button", "idle"}
                /\ outcome \notin {"none", "pending"}

\* The query of this run has its answer.
Answered == pc \in {"Answered", "button", "idle"}
               /\ outcome \notin {"none", "pending"}

\* The query of this run has its assistant turn.
Finished == pc \in {"button", "idle"} /\ outcome \notin {"none", "pending"}

NoResultsTurn ==
    [role |-> "assistant", content |-> NoResultsMessage, sources |-> <<>>]

\* C1: when the search of a query returns an empty list, the generator is never
\* called for that query, the answer is the fixed no-results message, and the
\* assistant turn appended to the transcript has an empty sources list.
C1_EmptySearchSkipsGeneration ==
    (Retrieved /\ similar_dialogues = <<>>) =>
        /\ calls.generate = 0
        /\ pc # "Generating"
        /\ llm = NoLLM
        /\ (Answered => response = NoResultsMessage)
        /\ (Finished => Last(messages) = NoResultsTurn)

C1_Witness ==
    /\ pc = "idle"
    /\ Finished
    /\ outcome = "no_results"
    /\ store = {}
    /\ calls = [encode |-> 1, execute |-> 1, generate |-> 0]
    /\ messages = <<[role |-> "user", content |-> "q1"], NoResultsTurn>>

\* A result list sorted by similarity descending, of at most k entries.
SortedAndLimited(ds, k) ==
    /\ Len(ds) <= k
    /\ \A i, j \in 1..Len(ds) : i < j => ds[i][4] >= ds[j][4]

\* C2: every non-empty result list is sorted by similarity
\* descending, has at most top_k entries, and every similarity (1 - cosine
\* distance) lies in [0, 1].
C2_Original ==
    (Retrieved /\ similar_dialogues # <<>>) =>
        /\ SortedAndLimited(similar_dialogues, top_k)
        /\ \A i \in 1..Len(similar_dialogues) :
              similar_dialogues[i][4] \in 0..One

\* Position before which entry i of the joined context starts.
RECURSIVE OffsetOf(_, _)
OffsetOf(ds, i) ==
    IF i = 1 THEN 0 ELSE OffsetOf(ds, i - 1) + Len(ds[i - 1][3]) + 2

ContextIsJoin(ctx, ds) ==
    /\ Len(ctx) = OffsetOf(ds, Len(ds)) + Len(ds[Len(ds)][3])
    /\ \A i \in 1..Len(ds) :
          SubSeq(ctx, OffsetOf(ds, i) + 1, OffsetOf(ds, i) + Len(ds[i][3])) = ds[i][3]
    /\ \A i \in 1..(Len(ds) - 1) :
          SubSeq(ctx, OffsetOf(ds, i) + Len(ds[i][3]) + 1, OffsetOf(ds, i + 1)) = "\n\n"
    /\ (Len(ds) = 1 => ctx = ds[1][3])

\* C3: for a non-empty result list, the context handed to the generator is the
\* content fields of the results in result order, with exactly "\n\n" between
\* consecutive entries and nothing before the first or after the last; for a
\* single result it is that result's content.
C3_ContextIsJoinedContents ==
    (pc \in {"Generating", "Answered", "button", "idle"}
        /\ similar_dialogues # <<>>) =>
        ContextIsJoin(context, similar_dialogues)

C3_Witness ==
    /\ pc = "Answered"
    /\ calls.generate = 1
    /\ Len(similar_dialogues) = 2
    /\ similar_dialogues[1][3] = "Bb"
    /\ similar_dialogues[2][3] = "A"
    /\ context = "Bb\n\nA"

\* C4: a failure of the search against the store (the cursor cannot be
\* opened, or the query fails) is not fatal: search_similar_dialogues
\* reports the error and returns an empty list (from its except branch on,
\* the error is shown and the result list is empty), the query takes the
\* no-results branch (fixed answer, empty sources, no generator call), and the
\* system still serves queries (the resources stay available and a further
\* question can be submitted).
C4_RetrievalErrorDegrades ==
    (outcome = "retrieval_error") =>
        /\ pc \in {"search_error", "Retrieved", "Answered", "button", "idle"}
        /\ (pc # "search_error" => "search" \in report)
        /\ similar_dialogues = <<>>
        /\ query_embedding = encode(question)
        /\ calls.encode = 1
        /\ calls.execute \in {0, 1}
        /\ calls.generate = 0
        /\ llm = NoLLM
        /\ (Answered => response = NoResultsMessage)
        /\ (Finished => Last(messages) = NoResultsTurn)
        /\ conn = "ok" /\ client = "ok" /\ chatInput
        /\ ((Finished /\ Len(messages) + 2 <= MaxTurns) => ENABLED Submit)

C4_Witness ==
    /\ pc = "idle"
    /\ outcome = "retrieval_error"
    /\ store # {}
    /\ calls = [encode |-> 1, execute |-> 0, generate |-> 0]
    /\ report = {"search"}
    /\ Last(messages) = NoResultsTurn
    /\ Len(messages) = 2

\* What generate_response returned, told from what the provider did.
IsGeneratorReturn(text) ==
    IF llm.ok
    THEN text = llm.text
    ELSE /\ Len(text) = Len(GenErrorPrefix) + Len(llm.text)
         /\ SubSeq(text, 1, Len(GenErrorPrefix)) = "Erreur lors de la generation: "
         /\ SubSeq(text, Len(GenErrorPrefix) + 1, Len(text)) = llm.text

\* C5: when the provider call fails, generate_response returns an error text
\* (the fixed prefix followed by the error) instead of raising; what it returns,
\* success text or error text, is unchanged the content of the assistant turn
\* appended, with the non-empty retrieved sources, and the turn has no field
\* other than role, content and sources.
C5_GeneratorReturnIsAnswer ==
    (outcome \in {"generated", "generation_error"}) =>
        /\ pc \in {"Answered", "button", "idle"}
        /\ (outcome = "generation_error") = (~llm.ok)
        /\ IsGeneratorReturn(response)
        /\ similar_dialogues # <<>>
        /\ (Finished =>
              /\ DOMAIN Last(messages) = {"role", "content", "sources"}
              /\ Last(messages).role = "assistant"
              /\ IsGeneratorReturn(Last(messages).content)
              /\ Last(messages).sources = similar_dialogues)

C5_Witness ==
    /\ pc = "idle"
    /\ Finished
    /\ outcome = "generation_error"
    /\ Last(messages).content = "Erreur lors de la generation: e"
    /\ Len(Last(messages).sources) = 2

\* The run is in the part of main() before the chat input, or over.
BeforeInput == pc \in {"start", "connect", "db_error", "client", "key_error",
                       "init_error", "idle"}

\* C6: while the connection or the client is unavailable no query is served:
\* no question is accepted (there is no chat input), nothing is embedded,
\* searched or generated, and the transcript stays empty; a run that comes to
\* its end has reported the cause (the error of the function that returned
\* None, and the message of main unless an exception ended the run first).
C6_NoServiceWithoutResources ==
    (conn # "ok" \/ client # "ok") =>
        /\ BeforeInput
        /\ messages = <<>>
        /\ question = ""
        /\ calls = NoCalls
        /\ outcome = "none"
        /\ ~chatInput
        /\ ~clearButton
        /\ ~ENABLED Submit
        /\ (pc = "idle" =>
              /\ (conn = "None" => "db" \in report)
              /\ (client = "None" => "key" \in report)
              /\ ("init" \in report \/ "uncaught" \in report)
              /\ (Unavailable(conn, client) /\ "uncaught" \notin report
                    => "init" \in report))

C6_Witness ==
    /\ pc = "idle"
    /\ conn = "ok"
    /\ client = "None"
    /\ report = {"key", "init"}
    /\ top_k = TopKMin

\* C7: a click on the clear button whose run comes to the button code leaves
\* a transcript of length 0 whatever length that run found, 0 included: a
\* click on an already empty transcript leaves it empty, and two clicks in a
\* row leave what one leaves.  After it the run that follows ends without a
\* question and without the button.
C7_ClearLeavesEmpty ==
    /\ (lastClear # NoClear =>
          /\ lastClear >= 0
          /\ messages = <<>>
          /\ question = ""
          /\ outcome = "none"
          /\ (pc = "idle" => ~clearButton))
    /\ ((pc = "button" /\ clicked) => (ENABLED ClearHistory <=> messages # <<>>))

\* A second click, on the transcript the first click emptied.
C7_Witness ==
    /\ lastClear = 0
    /\ messages = <<>>
    /\ pc = "idle"
    /\ ~clearButton

IsPrefix(s, t) == Len(s) <= Len(t) /\ SubSeq(t, 1, Len(s)) = s

\* C8: in every step the transcript is unchanged, or extended at its end (the
\* turns present stay as they are, in place), or replaced by the empty
\* sequence by a clear.
C8_AppendOnlyExceptClear ==
    [][ \/ messages' = messages
        \/ (Len(messages') > Len(messages) /\ IsPrefix(messages, messages'))
        \/ (messages' = <<>> /\ lastClear' = Len(messages) /\ clicked)
      ]_vars

C8_Witness ==
    /\ pc = "idle"
    /\ lastClear = NoClear
    /\ Len(messages) = 4
    /\ messages[1] = [role |-> "user", content |-> "q1"]
    /\ messages[3] = [role |-> "user", content |-> "q2"]
    /\ messages[2].role = "assistant"
    /\ messages[4].role = "assistant"
    /\ messages[2].content # messages[4].content

\* C9 as stated: a failed embedding ends the query in an error state that is
\* neither NoResults nor Done: no retry, no search, no generation, and neither
\* the no-results answer nor an assistant turn for it.
C9_Original ==
    (outcome = "embedding_error") =>
        /\ calls = [encode |-> 1, execute |-> 0, generate |-> 0]
        /\ response # NoResultsMessage
        /\ (pc \in {"button", "idle"} => Last(messages).role # "assistant")

\* C9 (amended): a failed embedding is handled as an empty result list: from
\* the except branch of search_similar_dialogues on the error is shown and
\* the result list is empty, and the query takes the NoResults branch to Done
\* (fixed answer, empty sources); the embedding is not retried, and neither
\* the search query nor the generator is run for that query.
C9_EmbeddingErrorIsNoResults ==
    (outcome = "embedding_error") =>
        /\ pc \in {"search_error", "Retrieved", "Answered", "button", "idle"}
        /\ calls = [encode |-> 1, execute |-> 0, generate |-> 0]
        /\ query_embedding = NoEmbedding
        /\ (pc # "search_error" => "search" \in report)
        /\ similar_dialogues = <<>>
        /\ (Answered => response = NoResultsMessage)
        /\ (Finished => Last(messages) = NoResultsTurn)

C9_Witness ==
    /\ pc = "idle"
    /\ outcome = "embedding_error"
    /\ store # {}
    /\ report = {"search"}
    /\ Last(messages) = NoResultsTurn
    /\ Len(messages) = 2

\* C10: whenever the system is idle, the transcript has even length and its
\* roles alternate user, assistant from the first turn: each question
\* submitted has its user turn followed at once by its assistant turn.
C10_TurnsAlternate ==
    (pc = "idle") =>
        /\ Len(messages) % 2 = 0
        /\ \A i \in 1..Len(messages) :
              messages[i].role = (IF i % 2 = 1 THEN "user" ELSE "assistant")
====
